---- MODULE Spec2Model ----
(***************************************************************************)
(* A model of the replicator simulation: ReplicatorWorld (src/src/model.py)*)
(* with its ResourcePatch and ReplicatorAgent entities (src/src/agents.py) *)
(* and their Genome (src/src/genome.py).                                   *)
(*                                                                         *)
(* Numbers.  Python floats are modelled in fixed point.  Phenotype traits, *)
(* patch amounts and uniform draws are in thousandths (1.0 is 1000).       *)
(* Raw alleles are in tenths.  Energy is in thousandths divided by Scale,  *)
(* a power of two: multiplying a binary float by 0.5 is exact, and with    *)
(* this unit so is halving an energy, as often as a run can halve it.      *)
(*                                                                         *)
(* Randomness.  Every value taken from the world's random stream is an     *)
(* input of the action that consumes it, drawn from a small set.           *)
(***************************************************************************)
EXTENDS Integers, Sequences, FiniteSets, TLC

VARIABLES world, twin

vars == <<world, twin>>

(* ------------------------------ bounds --------------------------------- *)

\* Largest tick budget (the `steps` argument) a world is constructed with.
MaxSteps == 3

\* Largest number of founders a world is constructed with.
MaxFounders == 2

\* Largest population ceiling (the `max_agents` argument).
MaxCeiling == 2

(* ------------------------- numeric conventions ------------------------- *)

\* Energy units per thousandth: one halving per tick at most, MaxSteps ticks.
Scale == 2 ^ MaxSteps

Min(a, b) == IF a < b THEN a ELSE b

Max(a, b) == IF a > b THEN a ELSE b

\* a / b rounded to the nearest integer (b > 0), as a float operation rounds.
RoundDiv(a, b) == (2 * a + b) \div (2 * b)

Genes == {"rep_gene", "death_gene", "mut_gene", "met_gene"}

(* ------------------------------ genome --------------------------------- *)

\* 1000 / (1 + exp(-x/10)) rounded, for x = -50 .. 50 (x in tenths).
SigmoidTable ==
  << 7, 7, 8, 9, 10, 11, 12, 13, 15, 16, 18, 20, 22, 24, 27, 29, 32, 36, 39,
     43, 47, 52, 57, 63, 69, 76, 83, 91, 100, 109, 119, 130, 142, 154, 168,
     182, 198, 214, 231, 250, 269, 289, 310, 332, 354, 378, 401, 426, 450,
     475, 500, 525, 550, 574, 599, 622, 646, 668, 690, 711, 731, 750, 769,
     786, 802, 818, 832, 846, 858, 870, 881, 891, 900, 909, 917, 924, 931,
     937, 943, 948, 953, 957, 961, 964, 968, 971, 973, 976, 978, 980, 982,
     984, 985, 987, 988, 989, 990, 991, 992, 993, 993 >>

\* The largest |allele|, in tenths, the table covers.
AlleleSpan == (Len(SigmoidTable) - 1) \div 2

\* math.exp(-x) raises OverflowError when -x is above 709.78: the largest
\* -x, in tenths, it returns a float for.
ExpRange == 7097

\* 1000 / (1 + exp(-x/10)) rounded.  Beyond the table the value is taken at
\* its limit, which the float result reaches from |x| = 37.0 on (1.0 + exp(-x)
\* is then 1.0, or 1 / (1 + exp(-x)) below 1e-16).
Sigmoid(x) ==
  IF x < -AlleleSpan THEN 0
  ELSE IF x > AlleleSpan THEN 1000
  ELSE SigmoidTable[x + AlleleSpan + 1]

\* logistic_bounded raises on allele x (tenths): math.exp(-x) overflows.
logistic_raises(x) == -x > ExpRange

\* lo + (hi - lo) * (1 / (1 + exp(-x))), in thousandths; x in tenths.
logistic_bounded(x, lo, hi) ==
  lo + RoundDiv((hi - lo) * Sigmoid(x), 1000)

\* GENE_SPEC: the mean and the deviation each allele is initialised with
\* (tenths) and the range its trait is squashed into (thousandths).
GENE_SPEC ==
  [ rep_gene   |-> [mu |->   0, sigma |-> 10, lo |-> 20, hi |-> 500],
    death_gene |-> [mu |-> -30, sigma |-> 10, lo |->  0, hi |->  50],
    mut_gene   |-> [mu |-> -20, sigma |-> 10, lo |->  1, hi |-> 200],
    met_gene   |-> [mu |->   0, sigma |-> 10, lo |-> 50, hi |-> 600] ]

\* Genome.__init__: raw[n] = gauss(mu, sigma); z[n] is the standard normal
\* value behind the draw, in tenths.
Genome(z) ==
  [n \in Genes |-> GENE_SPEC[n].mu + RoundDiv(GENE_SPEC[n].sigma * z[n], 10)]

\* Genome.phenotype
phenotype(raw) ==
  [ replication_rate |->
      logistic_bounded(raw["rep_gene"], GENE_SPEC["rep_gene"].lo, GENE_SPEC["rep_gene"].hi),
    mutation_rate |->
      logistic_bounded(raw["mut_gene"], GENE_SPEC["mut_gene"].lo, GENE_SPEC["mut_gene"].hi),
    death_rate |->
      logistic_bounded(raw["death_gene"], GENE_SPEC["death_gene"].lo, GENE_SPEC["death_gene"].hi),
    metabolism |->
      logistic_bounded(raw["met_gene"], GENE_SPEC["met_gene"].lo, GENE_SPEC["met_gene"].hi) ]

\* Genome.mutated_copy: every allele gets gauss(0, scale) added, scale being
\* the parent's mutation_rate, times 0.35 for mut_gene.  z[n] is the standard
\* normal value behind each draw, in whole deviations; the result is in tenths.
mutated_copy(raw, z) ==
  LET mr == phenotype(raw).mutation_rate
      scale(n) == IF n = "mut_gene" THEN 35 * mr ELSE 100 * mr
  IN  [n \in Genes |-> raw[n] + RoundDiv(scale(n) * z[n], 10000)]

(* ------------------------------- grid ---------------------------------- *)

\* The cells of MultiGrid(width, height).
Cells(cfg) == (0 .. cfg.width - 1) \X (0 .. cfg.height - 1)

\* The nine offsets of a Moore neighbourhood of radius 1, in the order the
\* grid enumerates them.
MooreOffsets ==
  << <<-1, -1>>, <<-1, 0>>, <<-1, 1>>, <<0, -1>>, <<0, 0>>, <<0, 1>>,
     <<1, -1>>, <<1, 0>>, <<1, 1>> >>

\* s without the entries that repeat an earlier one.
RECURSIVE Distinct(_)
Distinct(s) ==
  IF s = <<>> THEN <<>>
  ELSE LET front == Distinct(SubSeq(s, 1, Len(s) - 1))
           last  == s[Len(s)]
       IN  IF \E i \in 1 .. Len(front) : front[i] = last
           THEN front ELSE Append(front, last)

\* grid.get_neighborhood(pos, moore=True, include_center, radius=1) on the
\* torus: the wrapped cells, each once.
get_neighborhood(cfg, pos, include_center) ==
  LET wrapped == [i \in 1 .. 9 |->
                    << (pos[1] + MooreOffsets[i][1]) % cfg.width,
                       (pos[2] + MooreOffsets[i][2]) % cfg.height >>]
      cells   == Distinct(wrapped)
  IN  IF include_center THEN cells
      ELSE SelectSeq(cells, LAMBDA c : c # pos)

(* ------------------------------ entities ------------------------------- *)

\* Whether entity a of world w is a ResourcePatch / a ReplicatorAgent.
IsPatch(w, a) == a \in DOMAIN w.amount

IsReplicator(w, a) == a \in DOMAIN w.energy

\* The entities of a sequence, as a set.
Range(s) == {s[i] : i \in 1 .. Len(s)}

ReplicatorCountUnflagged(w) ==
  Cardinality({a \in Range(w.agents) : IsReplicator(w, a) /\ a \notin w.to_remove})

\* sum(1 for a in self.agents if isinstance(a, ReplicatorAgent))
ReplicatorCount(w) == Cardinality({a \in Range(w.agents) : IsReplicator(w, a)})

\* ReplicatorWorld._count_lineages_alive: a count for every lineage that has
\* a replicator in the population.
count_lineages_alive(w) ==
  LET reps == {a \in Range(w.agents) : IsReplicator(w, a)}
  IN  [l \in {w.lineage_id[a] : a \in reps} |->
         Cardinality({a \in reps : w.lineage_id[a] = l})]

\* grid.get_cell_list_contents([cell])
get_cell_list_contents(w, cell) ==
  {a \in DOMAIN w.pos : w.pos[a] = cell}

\* The energy a founder is created with (2.0).
FounderEnergy == 2000

\* ResourcePatch.__init__: amount = max(0.0, min(cap, init))
PatchInit(cap, init) == Max(0, Min(cap, init))

\* ReplicatorWorld.__init__: one patch per cell, then the founders, each with
\* a genome and a cell drawn from the stream (seeds[k] for founder k - 1).
Construct(cfg, seeds) ==
  LET nPatches == cfg.width * cfg.height
      patches  == 1 .. nPatches
      cellOf(p) == << (p - 1) \div cfg.height, (p - 1) % cfg.height >>
      founders == (nPatches + 1) .. (nPatches + cfg.founders)
      seedOf(a) == seeds[a - nPatches]
  IN  [ cfg       |-> cfg,
        agents    |-> [i \in 1 .. (nPatches + cfg.founders) |-> i],
        pos       |-> [a \in patches \cup founders |->
                         IF a \in patches THEN cellOf(a) ELSE seedOf(a).pos],
        cap       |-> [p \in patches |-> cfg.patch_cap],
        regrowth  |-> [p \in patches |-> cfg.patch_regrowth],
        amount    |-> [p \in patches |-> PatchInit(cfg.patch_cap, cfg.init_patch)],
        genome    |-> [a \in founders |-> Genome(seedOf(a).z)],
        energy    |-> [a \in founders |-> FounderEnergy * Scale],
        lineage_id |-> [a \in founders |-> a - nPatches - 1],
        to_remove |-> {},
        lineage_births |-> << >>,
        history_lineage_counts |-> << >>,
        lineage_founder_genes |->
          [l \in 0 .. (cfg.founders - 1) |->
             phenotype(Genome(seeds[l + 1].z))],
        model_vars |-> << >>,
        agents_to_step |-> << >>,
        next_id   |-> nPatches + cfg.founders + 1,
        ticks     |-> 0,
        pc        |-> "run",
        stop      |-> "none" ]

(* --------------------------- ResourcePatch ----------------------------- *)

\* ResourcePatch.step: amount += regrowth * (cap - amount), then the two
\* clamps, in the code's order.
PatchRegrow(amount, cap, regrowth) ==
  LET grown   == amount + RoundDiv(regrowth * (cap - amount), 1000)
      capped  == IF grown > cap THEN cap ELSE grown
  IN  IF capped < 0 THEN 0 ELSE capped

PatchStepRetiring(w, p) ==
  IF w.amount[p] = 0
  THEN [w EXCEPT !.to_remove = @ \cup {p}]
  ELSE [w EXCEPT !.amount[p] = PatchRegrow(w.amount[p], w.cap[p], w.regrowth[p])]

\* agent.step() of patch p, taken from the head of the tick's order.
PatchStep(w, p) ==
  [w EXCEPT !.amount[p] = PatchRegrow(w.amount[p], w.cap[p], w.regrowth[p])]

(* --------------------------- ReplicatorAgent --------------------------- *)

\* The values ReplicatorAgent.step compares energy with: the replication
\* threshold 1.5 and the surplus 2.0 at which the probability factor is 1.
ReplicationThreshold == 1500

FullSurplus == 2000

\* base_intake * uniform(0.8, 1.2), with base_intake = 1 / (1 + metabolism);
\* jitter is the uniform draw, in thousandths.
IntakeWanted(metabolism, jitter) ==
  RoundDiv(RoundDiv(1000 * 1000, 1000 + metabolism) * jitter, 1000)

ReplicationDrawnUncapped(u, replication_rate, energy) ==
  u * (FullSurplus * Scale)
    < replication_rate * (energy - ReplicationThreshold * Scale)

\* random() < replication_rate * min(1.0, (energy - 1.5) / 2.0), for a draw u
\* in thousandths and an energy in energy units; compared exactly.
ReplicationDrawn(u, replication_rate, energy) ==
  u * (FullSurplus * Scale)
    < replication_rate * Min(FullSurplus * Scale, energy - ReplicationThreshold * Scale)

RegisterNothing(births, lin) == births

RegisterTwice(births, lin) ==
  (lin :> (IF lin \in DOMAIN births THEN births[lin] + 2 ELSE 2)) @@ births

\* ReplicatorWorld.register_birth
register_birth(births, lin) ==
  IF lin \in DOMAIN births
  THEN [births EXCEPT ![lin] = @ + 1]
  ELSE births @@ (lin :> 1)

ChildEnergyQuartered(energy) == energy \div 4

\* child_energy = self.energy * 0.5
ChildEnergy(energy) == energy \div 2

ParentEnergyKept(energy) == energy

\* self.energy *= 0.5
ParentEnergy(energy) == energy \div 2

ChildLineageFresh(w, a) == w.next_id

\* The lineage_id the child is constructed with: self.lineage_id.
ChildLineage(w, a) == w.lineage_id[a]

child_cells_with_center(w, a) == get_neighborhood(w.cfg, w.pos[a], TRUE)

\* neighbors = list(grid.get_neighborhood(self.pos, moore=True,
\* include_center=False, radius=1)), the cells a child of a can be put on.
child_cells(w, a) == get_neighborhood(w.cfg, w.pos[a], FALSE)

\* Step 5 of ReplicatorAgent.step once the replication draw has succeeded:
\* the child's cell, genome and energy, and its registration.  w is the world
\* after metabolism, a the parent, d the draws.
Replicate(w, a, d) ==
  LET neighbors == child_cells(w, a)
      child_pos == IF neighbors = << >> THEN w.pos[a]
                   ELSE neighbors[(d.child % Len(neighbors)) + 1]
      child     == w.next_id
  IN  [w EXCEPT !.energy = (child :> ChildEnergy(w.energy[a]))
                             @@ [@ EXCEPT ![a] = ParentEnergy(w.energy[a])],
                !.genome = (child :> mutated_copy(w.genome[a], d.z)) @@ @,
                !.lineage_id = (child :> ChildLineage(w, a)) @@ @,
                !.agents = Append(@, child),
                !.pos = (child :> child_pos) @@ @,
                !.next_id = @ + 1,
                !.lineage_births = register_birth(@, w.lineage_id[a])]

IntakeUnchecked(amount, wanted) == wanted

\* intake = min(patch.amount, base_intake * uniform(0.8, 1.2))
Intake(amount, wanted) == Min(amount, wanted)

cellmates_of_cell_left(w, moved, a) == get_cell_list_contents(moved, w.pos[a])

\* cellmates = grid.get_cell_list_contents([self.pos]), self.pos being the
\* cell replicator a has moved to: w is the world before the move, moved
\* the world after it.
cellmates(w, moved, a) == get_cell_list_contents(moved, moved.pos[a])

\* Steps 1 to 3 of ReplicatorAgent.step: move to a cell of the neighbourhood,
\* harvest the patch there, pay metabolism.
MoveHarvestPay(w, a, d) ==
  LET t        == phenotype(w.genome[a])
      neighborhood == get_neighborhood(w.cfg, w.pos[a], TRUE)
      new_pos  == neighborhood[(d.move % Len(neighborhood)) + 1]
      moved    == [w EXCEPT !.pos[a] = new_pos]
      patches  == {o \in cellmates(w, moved, a) : IsPatch(w, o)}
  IN  IF patches = {}
      THEN [moved EXCEPT !.energy[a] = @ - t.metabolism * Scale]
      ELSE LET patch  == CHOOSE o \in patches : \A q \in patches : o <= q
               intake == Intake(w.amount[patch], IntakeWanted(t.metabolism, d.jitter))
               left   == w.amount[patch] - intake
           IN  [moved EXCEPT
                  !.amount[patch] = IF left < 0 THEN 0 ELSE left,
                  !.energy[a] = @ + intake * Scale - t.metabolism * Scale]

\* s without entity a.
Without(s, a) == SelectSeq(s, LAMBDA x : x # a)

\* f without a in its domain.
Drop(f, a) == [x \in DOMAIN f \ {a} |-> f[x]]

FlagAndLeaveGrid(w, a) ==
  [w EXCEPT !.to_remove = @ \cup {a}, !.pos = Drop(@, a)]

FlagAndRemoveAtOnce(w, a) ==
  [w EXCEPT !.pos = Drop(@, a), !.agents = Without(@, a)]

\* self.model.to_remove.add(self)
Flag(w, a) == [w EXCEPT !.to_remove = @ \cup {a}]

DiesByDrawOnly(u, death_rate, energy) == u < death_rate

\* random() < death_rate or energy <= 0, for a draw u in thousandths and the
\* energy after metabolism.
Dies(u, death_rate, energy) == u < death_rate \/ energy <= 0

ExhaustedBelowZero(energy) == energy < 0

\* if self.energy <= 0.0, at the head of ReplicatorAgent.step
Exhausted(energy) == energy <= 0

\* ReplicatorAgent.step of replicator a with the draws d: move (the index of
\* the chosen cell), jitter, death and rep (uniform draws), child (the index
\* of the child's cell) and z (the mutation's normal draws).
ReplicatorStep(w, a, d) ==
  IF Exhausted(w.energy[a])
  THEN Flag(w, a)
  ELSE LET t   == phenotype(w.genome[a])
           fed == MoveHarvestPay(w, a, d)
       IN  IF Dies(d.death, t.death_rate, fed.energy[a])
           THEN Flag(fed, a)
           ELSE IF /\ fed.energy[a] > ReplicationThreshold * Scale
                   /\ ReplicationDrawn(d.rep, t.replication_rate, fed.energy[a])
                THEN Replicate(fed, a, d)
                ELSE fed

(* --------------------------- ReplicatorWorld --------------------------- *)

RemoveFirstOnly(w, order) ==
  IF order = << >> THEN w
  ELSE [w EXCEPT !.pos = Drop(@, Head(order)), !.agents = Without(@, Head(order))]

\* The removal loop of ReplicatorWorld.step over list(self.to_remove), a set
\* whose iteration order the language leaves open: order is that order.  A
\* removed agent is referenced nowhere any more; its fields go with it.
RECURSIVE RemoveAll(_, _)
RemoveAll(w, order) ==
  IF order = << >> THEN w
  ELSE LET a == Head(order)
       IN  RemoveAll([w EXCEPT !.pos = Drop(@, a),
                               !.agents = Without(@, a),
                               !.energy = Drop(@, a),
                               !.genome = Drop(@, a),
                               !.lineage_id = Drop(@, a)],
                     Tail(order))

StepBeginListingFlagged(w, order) ==
  LET removed == RemoveAll(w, order)
  IN  [removed EXCEPT !.to_remove = {},
                      !.agents_to_step = w.agents,
                      !.pc = "agents"]

\* ReplicatorWorld.step up to the shuffle: the flagged agents are removed,
\* the removal set is cleared and the population is listed.
StepBegin(w, order) ==
  LET removed == RemoveAll(w, order)
  IN  [removed EXCEPT !.to_remove = {},
                      !.agents_to_step = removed.agents,
                      !.pc = "agents"]

\* One turn of the loop over the shuffled agents_to_step.  The permutation
\* is drawn one position at a time: pick is the index, among the entities
\* not yet stepped, of the one that comes next.
AgentTurn(w, d) ==
  LET a    == w.agents_to_step[(d.pick % Len(w.agents_to_step)) + 1]
      rest == [w EXCEPT !.agents_to_step = Without(@, a)]
  IN  IF IsPatch(w, a) THEN PatchStep(rest, a) ELSE ReplicatorStep(rest, a, d)

\* The first loop after the agents' steps: every count is appended to its
\* lineage's history, which a first count creates.
AppendCounts(h, counts) ==
  [l \in DOMAIN h \cup DOMAIN counts |->
     IF l \in DOMAIN counts
     THEN Append(IF l \in DOMAIN h THEN h[l] ELSE << >>, counts[l])
     ELSE h[l]]

PadCounted(h, counts) ==
  [l \in DOMAIN h |-> IF l \in DOMAIN counts THEN Append(h[l], 0) ELSE h[l]]

PadNothing(h, counts) == h

\* The second loop: a history whose lineage has no count gets a 0.
PadAbsent(h, counts) ==
  [l \in DOMAIN h |-> IF l \notin DOMAIN counts THEN Append(h[l], 0) ELSE h[l]]

\* ReplicatorWorld.step after the loop over the agents: the lineage counts
\* go to the histories and the data collector records N and the counts.
RecordCounts(w) ==
  LET counts == count_lineages_alive(w)
  IN  [w EXCEPT !.history_lineage_counts = PadAbsent(AppendCounts(@, counts), counts),
                !.model_vars = Append(@, [N |-> ReplicatorCount(w),
                                          lineages |-> counts]),
                !.ticks = @ + 1,
                !.pc = "run"]

CeilingOffByOne(w, alive) == alive > w.cfg.max_agents + 1

CeilingIgnored(w, alive) == FALSE

\* if alive > self.max_agents: break
CeilingReached(w, alive) == alive > w.cfg.max_agents

\* The head of one iteration of ReplicatorWorld.run: the budget, then the
\* two population checks, then the call of step().
RunCheck(w) ==
  LET alive == ReplicatorCount(w)
  IN  IF w.ticks >= w.cfg.steps THEN [w EXCEPT !.pc = "done", !.stop = "budget"]
      ELSE IF alive = 0 THEN [w EXCEPT !.pc = "done", !.stop = "extinct"]
      ELSE IF CeilingReached(w, alive)
           THEN [w EXCEPT !.pc = "done", !.stop = "ceiling"]
      ELSE [w EXCEPT !.pc = "remove"]

(* ------------------------- inputs of the model ------------------------- *)

\* The values the replication draw takes in the model, in thousandths.
UniformDraws == {0, 100, 280, 300, 999}

\* The values the death draw takes in the model, in thousandths.
DeathDraws == {0, 999}

\* The values uniform(0.8, 1.2) takes in the model, in thousandths.
JitterDraws == {800, 1200}

NoNoise == [n \in Genes |-> 0]

\* The standard normal vectors behind a mutation's four gauss draws.
MutationDraws ==
  {NoNoise, [rep_gene |-> 5, death_gene |-> 0, mut_gene |-> 8, met_gene |-> -5]}

\* The standard normal vectors (tenths) behind a founder genome's draws: the
\* means (a metabolism of 0.325), a metabolism of 0.452, and one of exactly
\* 0.5, which takes a founder without food to an energy of exactly 1.5.
MeanFounder == NoNoise

HungryFounder ==
  [rep_gene |-> 10, death_gene |-> 0, mut_gene |-> 0, met_gene |-> 10]

ThresholdFounder ==
  [rep_gene |-> 0, death_gene |-> 0, mut_gene |-> 0, met_gene |-> 15]

\* ReplicatorWorld(width, height, founders, steps, patch_cap, patch_regrowth,
\* init_patch, max_agents): the arguments as a record.
Config(width, height, founders, steps, max_agents, patch) ==
  [ width |-> width, height |-> height, founders |-> founders, steps |-> steps,
    max_agents |-> max_agents, patch_cap |-> patch[1],
    patch_regrowth |-> patch[2], init_patch |-> patch[3] ]

\* Patch parameters <<patch_cap, patch_regrowth, init_patch>>, thousandths:
\* the constructor's defaults; a patch that starts at half its capacity and
\* refills past it; one that starts above it; an empty one; and a negative
\* capacity, which the constructor accepts.
DefaultPatch == <<10000, 100, 5000>>

RichPatch == <<1000, 1500, 500>>

FullPatch == <<1000, 100, 5000>>

BarrenPatch == <<0, 100, 0>>

NegativePatch == <<-1000, 100, 500>>

\* Worlds without food on a single cell, of every size within the bounds:
\* their replicators live on the founders' energy.
BarrenWorlds ==
  { Config(1, 1, f, s, m, BarrenPatch) :
      f \in 1 .. MaxFounders, s \in 0 .. MaxSteps, m \in 1 .. MaxCeiling }

\* Worlds with food on two cells: a lone founder under the default patches
\* that stops at its first replication, a founder and its offspring, and two
\* founders foraging side by side for a tick.
ForagingWorlds ==
  { Config(2, 1, 1, 3, 1, DefaultPatch),
    Config(2, 1, 1, 2, 2, RichPatch),
    Config(2, 1, 2, 1, 2, FullPatch) }

\* A world whose patches have a negative capacity.
NegativeWorlds == { Config(2, 1, 1, 2, 1, NegativePatch) }

\* The arguments of ReplicatorWorld(...) the model constructs worlds with.
Configs == BarrenWorlds \cup ForagingWorlds \cup NegativeWorlds

\* The genome draws of the founders of a world with configuration cfg.
FounderDraws(cfg) ==
  IF cfg \in BarrenWorlds
  THEN {MeanFounder, HungryFounder, ThresholdFounder}
  ELSE {MeanFounder, HungryFounder}

\* The draws of the founders of a world with configuration cfg.
Seedings(cfg) ==
  [1 .. cfg.founders -> [pos : Cells(cfg), z : FounderDraws(cfg)]]

\* The orders in which a set can be iterated.
Orders(S) ==
  {o \in [1 .. Cardinality(S) -> S] : \A x \in S : \E i \in DOMAIN o : o[i] = x}

\* The draws of one turn, as a record.
Draw(pick, move, jitter, death, rep, child, z) ==
  [ pick |-> pick, move |-> move, jitter |-> jitter, death |-> death,
    rep |-> rep, child |-> child, z |-> z ]

\* The draws the step of a replicator may consume, the replicator being the
\* pick-th of the entities still to step.  A draw the step does not take from
\* the stream (nothing at the energy gate; no replication draw after a death
\* or under the threshold; no child cell and no mutation after a failed
\* replication draw) is listed with one value only.
StepDraws(w, pick) ==
  LET a == w.agents_to_step[pick + 1]
      t == phenotype(w.genome[a])
      n == Len(get_neighborhood(w.cfg, w.pos[a], TRUE))
      after(m, j) ==
        MoveHarvestPay(w, a, Draw(pick, m, j, 0, 0, 0, NoNoise)).energy[a]
      rest(m, j, e) ==
        { Draw(pick, m, j, u, 0, 0, NoNoise) :
            u \in {u \in DeathDraws : u < t.death_rate \/ e <= 0} }
        \cup
        { Draw(pick, m, j, u, 0, 0, NoNoise) :
            u \in {u \in DeathDraws :
                     u >= t.death_rate /\ e > 0 /\ e <= ReplicationThreshold * Scale} }
        \cup
        { Draw(pick, m, j, u, r, 0, NoNoise) :
            u \in {u \in DeathDraws :
                     u >= t.death_rate /\ e > ReplicationThreshold * Scale},
            r \in {r \in UniformDraws : ~ReplicationDrawn(r, t.replication_rate, e)} }
        \cup
        { Draw(pick, m, j, u, r, c, z) :
            u \in {u \in DeathDraws :
                     u >= t.death_rate /\ e > ReplicationThreshold * Scale},
            r \in {r \in UniformDraws : ReplicationDrawn(r, t.replication_rate, e)},
            c \in 0 .. Max(0, n - 2), z \in MutationDraws }
  IN  IF w.energy[a] <= 0
      THEN { Draw(pick, 0, 1000, 0, 0, 0, NoNoise) }
      ELSE UNION { rest(m, j, after(m, j)) : m \in 0 .. (n - 1), j \in JitterDraws }

\* The draws a patch's turn consumes: its place in the order only.
PatchDraws(pick) == Draw(pick, 0, 1000, 0, 0, 0, NoNoise)

(* ------------------------------ actions -------------------------------- *)

Init ==
  /\ \E cfg \in Configs : \E seeds \in Seedings(cfg) :
       world = Construct(cfg, seeds)
  /\ twin = << >>

\* run(): the loop head.
Run ==
  /\ world.pc = "run"
  /\ world' = RunCheck(world)
  /\ UNCHANGED twin

\* step(): removal of the flagged agents, listing of the population.
Remove ==
  /\ world.pc = "remove"
  /\ \E order \in Orders(world.to_remove) : world' = StepBegin(world, order)
  /\ UNCHANGED twin

\* step(): the next entity of the shuffled order is a patch and steps.
StepPatch ==
  /\ world.pc = "agents"
  /\ \E pick \in 0 .. (Len(world.agents_to_step) - 1) :
       /\ IsPatch(world, world.agents_to_step[pick + 1])
       /\ world' = AgentTurn(world, PatchDraws(pick))
  /\ UNCHANGED twin

\* step(): the next entity of the shuffled order is a replicator and steps.
StepReplicator ==
  /\ world.pc = "agents"
  /\ \E pick \in 0 .. (Len(world.agents_to_step) - 1) :
       /\ ~IsPatch(world, world.agents_to_step[pick + 1])
       /\ \E d \in StepDraws(world, pick) : world' = AgentTurn(world, d)
  /\ UNCHANGED twin

\* step(): every entity has stepped; the counts are recorded.
Record ==
  /\ world.pc = "agents"
  /\ world.agents_to_step = << >>
  /\ world' = RecordCounts(world)
  /\ UNCHANGED twin

Next == Run \/ Remove \/ StepPatch \/ StepReplicator \/ Record

Spec == Init /\ [][Next]_vars

(* ------------------- two runs of the same construction ------------------ *)

\* The next step of run() in world w, wherever w stands: d is what the
\* stream yields next and order the iteration order of w's removal set.
Advance(w, d, order) ==
  CASE w.pc = "run"    -> RunCheck(w)
    [] w.pc = "remove" -> StepBegin(w, order)
    [] w.pc = "agents" -> IF w.agents_to_step = << >> THEN RecordCounts(w)
                          ELSE AgentTurn(w, d)
    [] OTHER           -> w

\* Two worlds constructed with the same arguments and the same seed: the
\* constructor takes the same draws from the stream.
InitTwins ==
  \E cfg \in Configs : \E seeds \in Seedings(cfg) :
    /\ world = Construct(cfg, seeds)
    /\ twin = Construct(cfg, seeds)

\* Each step below advances both runs.  The seed being the same, the stream
\* yields the same values d to both; the iteration order of the removal set
\* is each run's own.
TwinRun ==
  /\ world.pc = "run"
  /\ world' = RunCheck(world)
  /\ \E o \in Orders(twin.to_remove) : twin' = Advance(twin, PatchDraws(0), o)

TwinRemove ==
  /\ world.pc = "remove"
  /\ \E o1 \in Orders(world.to_remove), o2 \in Orders(twin.to_remove) :
       /\ world' = StepBegin(world, o1)
       /\ twin' = Advance(twin, PatchDraws(0), o2)

TwinStepPatch ==
  /\ world.pc = "agents"
  /\ \E pick \in 0 .. (Len(world.agents_to_step) - 1) :
       /\ IsPatch(world, world.agents_to_step[pick + 1])
       /\ world' = AgentTurn(world, PatchDraws(pick))
       /\ \E o \in Orders(twin.to_remove) :
            twin' = Advance(twin, PatchDraws(pick), o)

TwinStepReplicator ==
  /\ world.pc = "agents"
  /\ \E pick \in 0 .. (Len(world.agents_to_step) - 1) :
       /\ ~IsPatch(world, world.agents_to_step[pick + 1])
       /\ \E d \in StepDraws(world, pick) :
            /\ world' = AgentTurn(world, d)
            /\ \E o \in Orders(twin.to_remove) : twin' = Advance(twin, d, o)

TwinRecord ==
  /\ world.pc = "agents"
  /\ world.agents_to_step = << >>
  /\ world' = RecordCounts(world)
  /\ \E o \in Orders(twin.to_remove) : twin' = Advance(twin, PatchDraws(0), o)

NextTwins ==
  TwinRun \/ TwinRemove \/ TwinStepPatch \/ TwinStepReplicator \/ TwinRecord

SpecTwins == InitTwins /\ [][NextTwins]_vars

(* ------------------- replicators of any initial energy ------------------ *)

\* The energies, in thousandths, ReplicatorAgent(model, genome, energy,
\* lineage_id) is called with: below 0, 0, and the founders' 2.0.
GateEnergies == {-500, 0, FounderEnergy}

\* A world of two cells and two founders with food.
GateWorlds == { Config(2, 1, 2, 1, 2, RichPatch) }

\* A constructed world whose replicators hold any of these energies.
InitGate ==
  /\ \E cfg \in GateWorlds : \E seeds \in Seedings(cfg) :
       LET w == Construct(cfg, seeds)
       IN  \E e \in [DOMAIN w.energy -> GateEnergies] :
             world = [w EXCEPT !.energy = [a \in DOMAIN w.energy |-> e[a] * Scale]]
  /\ twin = << >>

SpecGate == InitGate /\ [][Next]_vars

(* --------------------- grids of three cells and more ------------------- *)

\* Worlds of 3 x 3 and 4 x 3 cells without food, of two founders and one
\* tick, with room for two children.
PlacementWorlds ==
  { Config(3, 3, 2, 1, 4, BarrenPatch), Config(4, 3, 2, 1, 4, BarrenPatch) }

\* The founders are put on a corner cell and on the cell diagonal to it; on
\* these grids their moves take them to every cell around.
InitPlacement ==
  /\ \E cfg \in PlacementWorlds :
       world = Construct(cfg, [k \in 1 .. cfg.founders |->
                                 [pos |-> <<k - 1, k - 1>>, z |-> MeanFounder]])
  /\ twin = << >>

\* step(): of the orders of a tick, those that have the patches first, in
\* the order of their creation, and the replicators after them in any order;
\* of the mutations of a child, the one that changes nothing.
StepPatchFirst ==
  /\ world.pc = "agents"
  /\ world.agents_to_step # << >>
  /\ IsPatch(world, Head(world.agents_to_step))
  /\ world' = AgentTurn(world, PatchDraws(0))
  /\ UNCHANGED twin

StepReplicatorLast ==
  /\ world.pc = "agents"
  /\ \A a \in Range(world.agents_to_step) : ~IsPatch(world, a)
  /\ \E pick \in 0 .. (Len(world.agents_to_step) - 1) :
       \E d \in StepDraws(world, pick) :
         d.z = NoNoise /\ world' = AgentTurn(world, d)
  /\ UNCHANGED twin

NextPlacement ==
  Run \/ Remove \/ StepPatchFirst \/ StepReplicatorLast \/ Record

SpecPlacement == InitPlacement /\ [][NextPlacement]_vars

(* ---------------------- a tick's ledger of the patches ------------------ *)

\* The ledger of a tick, kept beside a run: for every patch what it held when
\* the tick's order was drawn, what its regrowth has added since, and what
\* the replicators have taken from it since, as they received it (in energy
\* units), in how many harvests.
LedgerOpened(w) ==
  [ held     |-> w.amount,
    regrown  |-> [p \in DOMAIN w.amount |-> 0],
    taken    |-> [p \in DOMAIN w.amount |-> 0],
    harvests |-> [p \in DOMAIN w.amount |-> 0] ]

\* The ledger after the step of run() that takes world w to world after.
Account(ledger, w, after) ==
  IF w.pc = "remove" THEN LedgerOpened(after)
  ELSE IF w.pc # "agents" \/ after.pc # "agents" THEN ledger
  ELSE LET a == CHOOSE a \in Range(w.agents_to_step) :
                  a \notin Range(after.agents_to_step)
       IN  IF IsPatch(w, a)
           THEN [ledger EXCEPT !.regrown[a] = @ + after.amount[a] - w.amount[a]]
           ELSE IF w.energy[a] <= 0 THEN ledger
           ELSE LET patch  == CHOOSE p \in DOMAIN w.amount : w.pos[p] = after.pos[a]
                    income == IF after.next_id > w.next_id
                              THEN after.energy[a] + after.energy[w.next_id]
                              ELSE after.energy[a]
                    gain   == income - w.energy[a]
                                + phenotype(w.genome[a]).metabolism * Scale
                IN  [ledger EXCEPT !.taken[patch] = @ + gain,
                                   !.harvests[patch] = @ + 1]

\* Worlds in which replicators share patches that hold less than they want.
LedgerWorlds == ForagingWorlds

InitLedger ==
  \E cfg \in LedgerWorlds : \E seeds \in Seedings(cfg) :
    /\ world = Construct(cfg, seeds)
    /\ twin = LedgerOpened(world)

LedgerRun ==
  /\ world.pc = "run"
  /\ world' = RunCheck(world)
  /\ twin' = Account(twin, world, world')

LedgerRemove ==
  /\ world.pc = "remove"
  /\ \E order \in Orders(world.to_remove) : world' = StepBegin(world, order)
  /\ twin' = Account(twin, world, world')

LedgerStepPatch ==
  /\ world.pc = "agents"
  /\ \E pick \in 0 .. (Len(world.agents_to_step) - 1) :
       /\ IsPatch(world, world.agents_to_step[pick + 1])
       /\ world' = AgentTurn(world, PatchDraws(pick))
  /\ twin' = Account(twin, world, world')

LedgerStepReplicator ==
  /\ world.pc = "agents"
  /\ \E pick \in 0 .. (Len(world.agents_to_step) - 1) :
       /\ ~IsPatch(world, world.agents_to_step[pick + 1])
       /\ \E d \in StepDraws(world, pick) : world' = AgentTurn(world, d)
  /\ twin' = Account(twin, world, world')

LedgerRecord ==
  /\ world.pc = "agents"
  /\ world.agents_to_step = << >>
  /\ world' = RecordCounts(world)
  /\ twin' = Account(twin, world, world')

NextLedger ==
  LedgerRun \/ LedgerRemove \/ LedgerStepPatch \/ LedgerStepReplicator
    \/ LedgerRecord

SpecLedger == InitLedger /\ [][NextLedger]_vars

(* ------------------------- notions of the claims ----------------------- *)

\* The replicators in the population of world w.
Replicators(w) == {a \in Range(w.agents) : IsReplicator(w, a)}

\* The replicators of lineage l in the population of world w.
OfLineage(w, l) == {a \in Replicators(w) : w.lineage_id[a] = l}

\* The founder registry's lineages.
Founded(w) == DOMAIN w.lineage_founder_genes

RECURSIVE SumOver(_, _)
SumOver(f, S) ==
  IF S = {} THEN 0
  ELSE LET x == CHOOSE x \in S : TRUE IN f[x] + SumOver(f, S \ {x})

\* The resource in all patches of world w.
TotalAmount(w) == SumOver(w.amount, DOMAIN w.amount)

\* An entity's turn is being taken, and which entity's.
TurnTaken ==
  /\ world.pc = "agents"
  /\ Len(world'.agents_to_step) < Len(world.agents_to_step)

Stepped ==
  CHOOSE a \in Range(world.agents_to_step) : a \notin Range(world'.agents_to_step)

\* The step being taken is a replicator's and creates a child.
Replicated == TurnTaken /\ world'.next_id > world.next_id

(* -------------------------------- C1 ----------------------------------- *)

\* C1: every patch's amount is within [0, cap] in every state, that is
\* whenever an entity's step has completed, whatever the order of harvests
\* and regrowth.
PatchAmountWithinCapacity ==
  \A p \in DOMAIN world.amount :
    0 <= world.amount[p] /\ world.amount[p] <= world.cap[p]

\* The same for the patches whose capacity is not negative.
PatchAmountWithinValidCapacity ==
  \A p \in DOMAIN world.amount :
    world.cap[p] >= 0 => 0 <= world.amount[p] /\ world.amount[p] <= world.cap[p]

(* -------------------------------- C2 ----------------------------------- *)

\* C2: once an entry of a lineage's history is 0, every later entry is 0, and
\* the population holds no replicator of that lineage.
ExtinctionIsFinal ==
  \A l \in DOMAIN world.history_lineage_counts :
    LET h == world.history_lineage_counts[l]
    IN  \A i \in 1 .. Len(h) :
          h[i] = 0 =>
            /\ \A j \in i .. Len(h) : h[j] = 0
            /\ OfLineage(world, l) = {}

\* A lineage's history has an entry after a 0, while another lineage lives.
ExtinctLineageRecordedAgain ==
  \E l \in DOMAIN world.history_lineage_counts :
    LET h == world.history_lineage_counts[l]
    IN  /\ \E i \in 1 .. Len(h) : h[i] = 0 /\ i < Len(h)
        /\ Replicators(world) # {}

(* -------------------------------- C3 ----------------------------------- *)

LineagesRegistered ==
  /\ \A a \in Replicators(world) : world.lineage_id[a] \in Founded(world)
  /\ DOMAIN world.history_lineage_counts \subseteq Founded(world)
  /\ DOMAIN world.lineage_births \subseteq Founded(world)

LineageIdsKept ==
  /\ world'.lineage_founder_genes = world.lineage_founder_genes
  /\ \A a \in Replicators(world) \cap Replicators(world') :
       world'.lineage_id[a] = world.lineage_id[a]
  /\ Replicated =>
       /\ world'.lineage_id[world.next_id] = world.lineage_id[Stepped]
       /\ Replicators(world') = Replicators(world) \cup {world.next_id}
  /\ ~Replicated => Replicators(world') \subseteq Replicators(world)

\* C3: the lineage of every replicator in the population, every key of the
\* histories and every key of the birth counter is a key of the founder
\* registry, which never changes; no step changes a replicator's lineage and
\* a child gets its parent's.
LineageConservation == [](LineagesRegistered) /\ [][LineageIdsKept]_vars

\* A child is in the population and its lineage has a birth on record.
ChildOfFounderLineage ==
  \E a \in Replicators(world) :
    /\ a >= world.cfg.width * world.cfg.height + world.cfg.founders + 1
    /\ world.lineage_id[a] \in DOMAIN world.lineage_births

(* -------------------------------- C4 ----------------------------------- *)

\* C4: two worlds constructed with the same arguments and the same seed and
\* run side by side stand at the same point of run() with the same entities
\* left to step (the stream is consumed in the same order), and have the same
\* per-tick series of N and of the lineage counts and the same lineage
\* histories, whatever the order in which each iterates its removal set.
TwinsAgree ==
  /\ twin.pc = world.pc
  /\ twin.stop = world.stop
  /\ twin.ticks = world.ticks
  /\ twin.agents_to_step = world.agents_to_step
  /\ twin.model_vars = world.model_vars
  /\ twin.history_lineage_counts = world.history_lineage_counts

\* Both runs have returned after a tick that recorded two replicators, both
\* flagged, and a tick that removed them.
TwinsRanThroughARemoval ==
  /\ world.pc = "done" /\ twin.pc = "done"
  /\ Len(twin.model_vars) >= 2
  /\ twin.model_vars[1].N = 2
  /\ twin.model_vars[2].N = 0

(* -------------------------------- C5 ----------------------------------- *)

\* The energy of the stepping replicator after its harvest and metabolism,
\* from what the step took from the patches.
EnergyAfterMetabolism ==
  world.energy[Stepped]
    + (TotalAmount(world) - TotalAmount(world')) * Scale
    - phenotype(world.genome[Stepped]).metabolism * Scale

SplitConserves ==
  Replicated =>
    LET parent == Stepped
        child  == world.next_id
    IN  /\ world'.energy[child] + world'.energy[parent] = EnergyAfterMetabolism
        /\ world'.energy[child] = world'.energy[parent]
        /\ world'.lineage_id[child] = world.lineage_id[parent]
        /\ world'.lineage_id[parent] = world.lineage_id[parent]

\* C5: at a replication the child's energy and the parent's energy after it
\* add up to the parent's energy before it, each being half of it, and the
\* child has the parent's lineage.
ReplicationSplitsEnergy == [][SplitConserves]_vars

\* A replication has just happened: the newest replicator and another of its
\* lineage hold the same energy, and the tick is still under way.
ParentAndChildShareEnergy ==
  /\ world.pc = "agents"
  /\ \E c, a \in Replicators(world) :
       /\ c = world.next_id - 1
       /\ a # c
       /\ c > world.cfg.width * world.cfg.height + world.cfg.founders
       /\ world.lineage_id[a] = world.lineage_id[c]
       /\ world.energy[a] = world.energy[c]
       /\ world.energy[c] > 0

(* -------------------------------- C6 ----------------------------------- *)

FlaggedInPopulation ==
  /\ world.to_remove \subseteq Replicators(world)
  /\ world.to_remove \subseteq DOMAIN world.pos

RemovalDeferred ==
  /\ world.pc # "remove" =>
       /\ Replicators(world) \subseteq Replicators(world')
       /\ \A a \in Replicators(world) : a \in DOMAIN world'.pos
       /\ world.to_remove \subseteq world'.to_remove
  /\ (world.pc = "agents" /\ world'.pc = "run") =>
       /\ world'.to_remove = world.to_remove
       /\ \A l \in Founded(world) :
            LET h == world'.history_lineage_counts[l]
                flagged == {a \in world.to_remove : world.lineage_id[a] = l}
                others  == {a \in Replicators(world) \ world.to_remove :
                              world.lineage_id[a] = l}
            IN  h[Len(h)] = Cardinality(flagged) + Cardinality(others)
  /\ world.pc = "remove" =>
       /\ Range(world'.agents) = Range(world.agents) \ world.to_remove
       /\ DOMAIN world'.pos = DOMAIN world.pos \ world.to_remove
       /\ world'.to_remove = {}
       /\ world'.agents_to_step = world'.agents
       /\ world'.amount = world.amount
       /\ world'.ticks = world.ticks

\* C6: a flagged replicator is in the population and on the grid; no step
\* other than the removal phase takes a replicator out of either or unflags
\* one; the counts appended at the end of a tick include the flagged; the
\* removal phase, before any entity steps, takes exactly the flagged out of
\* population and grid and leaves the removal set empty.
DeferredRemoval == [](FlaggedInPopulation) /\ [][RemovalDeferred]_vars

\* A removal phase has just ended: no entity has stepped yet, the removal set
\* is empty, and a lineage's last recorded count exceeds its present size.
CountedThenRemoved ==
  /\ world.pc = "agents"
  /\ world.agents_to_step = world.agents
  /\ world.to_remove = {}
  /\ \E l \in DOMAIN world.history_lineage_counts :
       LET h == world.history_lineage_counts[l]
       IN  Len(h) >= 1 /\ h[Len(h)] > Cardinality(OfLineage(world, l))

(* -------------------------------- C7 ----------------------------------- *)

RunBounded ==
  /\ world.ticks <= world.cfg.steps
  /\ Len(world.model_vars) <= world.cfg.steps
  /\ \A l \in DOMAIN world.history_lineage_counts :
       Len(world.history_lineage_counts[l]) <= world.cfg.steps
  /\ world.pc = "done" =>
       \/ world.stop = "budget" /\ world.ticks = world.cfg.steps
       \/ /\ world.stop = "extinct"
          /\ world.ticks < world.cfg.steps
          /\ Replicators(world) = {}
       \/ /\ world.stop = "ceiling"
          /\ world.ticks < world.cfg.steps
          /\ Cardinality(Replicators(world)) > world.cfg.max_agents

TickGuarded ==
  /\ world'.ticks # world.ticks =>
       world.pc = "agents" /\ world'.pc = "run" /\ world'.ticks = world.ticks + 1
  /\ (world.pc = "run" /\ world'.pc # "done") =>
       /\ world'.pc = "remove"
       /\ world.ticks < world.cfg.steps
       /\ Cardinality(Replicators(world)) >= 1
       /\ Cardinality(Replicators(world)) <= world.cfg.max_agents
  /\ world.pc # "run" => world'.pc # "done"

\* What run() has left to do in world w: the ticks of the budget, the phases
\* of the current tick, the entities still to step.  All are naturals.
LeftToDo(w) ==
  << w.cfg.steps - w.ticks,
     CASE w.pc = "run" -> 3 [] w.pc = "remove" -> 2 [] w.pc = "agents" -> 1
       [] OTHER -> 0,
     Len(w.agents_to_step) >>

LexLess(a, b) ==
  \/ a[1] < b[1]
  \/ a[1] = b[1] /\ a[2] < b[2]
  \/ a[1] = b[1] /\ a[2] = b[2] /\ a[3] < b[3]

\* run() has a next step to take unless it has returned.
NeverStuck ==
  /\ world.pc \in {"run", "remove", "agents", "done"}
  /\ world.pc = "remove" => Orders(world.to_remove) # {}
  /\ world.pc = "agents" =>
       \A pick \in 0 .. (Len(world.agents_to_step) - 1) :
         \/ IsPatch(world, world.agents_to_step[pick + 1])
         \/ StepDraws(world, pick) # {}

\* C7: run() executes at most steps ticks and every history is at most steps
\* long; a tick starts only from the loop head, with the budget not used up
\* and the replicator count between 1 and max_agents; run() stops for one of
\* the three reasons only; and it always returns: it is never stuck, and
\* each of its steps lowers what is left to do, in lexicographic order.
RunStops ==
  /\ [](RunBounded /\ NeverStuck)
  /\ [][TickGuarded /\ LexLess(LeftToDo(world'), LeftToDo(world))]_vars

\* run() has returned at the ceiling after at least one tick, with budget
\* left and replicators alive.
StoppedAtCeiling ==
  /\ world.pc = "done"
  /\ world.stop = "ceiling"
  /\ world.ticks >= 1

(* -------------------------------- C8 ----------------------------------- *)

\* C8: in a world with exactly one founder, the first entry of the founder
\* lineage's history is 1.
FirstEntryIsOne ==
  (world.cfg.founders = 1 /\ 0 \in DOMAIN world.history_lineage_counts) =>
    world.history_lineage_counts[0][1] = 1

\* The births on record for lineage l in world w.
BirthsOf(w, l) == IF l \in DOMAIN w.lineage_births THEN w.lineage_births[l] ELSE 0

\* C8 (amended): in a world with exactly one founder, once the first tick
\* is over the founder lineage has a history whose first entry is 1 or 2: 1
\* plus the births of the first tick, the founder being counted whether or
\* not that tick flagged it.
FirstEntryCountsFirstTick ==
  (world.cfg.founders = 1 /\ world.ticks >= 1) =>
    /\ 0 \in DOMAIN world.history_lineage_counts
    /\ world.history_lineage_counts[0][1] \in {1, 2}
    /\ (world.ticks = 1 /\ world.pc \in {"run", "remove"}) =>
         world.history_lineage_counts[0][1] = 1 + BirthsOf(world, 0)

\* The first tick of a one-founder world is over; it flagged the founder and
\* recorded 1.
FlaggedFounderCounted ==
  /\ world.cfg.founders = 1
  /\ world.ticks = 1
  /\ world.to_remove # {}
  /\ world.history_lineage_counts[0] = <<1>>

(* -------------------------------- C9 ----------------------------------- *)

\* C9: every history is as long as the number of ticks executed; from the
\* first tick on every founder lineage has one; right after a step the last
\* entry of each is the number of the lineage's replicators in the
\* population, 0 when there is none.
HistoriesAligned ==
  /\ \A l \in DOMAIN world.history_lineage_counts :
       Len(world.history_lineage_counts[l]) = world.ticks
  /\ world.ticks >= 1 => DOMAIN world.history_lineage_counts = Founded(world)
  /\ (world.ticks >= 1 /\ world.pc = "run") =>
       \A l \in Founded(world) :
         world.history_lineage_counts[l][world.ticks]
           = Cardinality(OfLineage(world, l))

\* After the second tick or later, one lineage got a 0 and another a count.
ZeroBesideCount ==
  /\ world.pc = "run"
  /\ world.ticks >= 2
  /\ \E l, m \in Founded(world) :
       /\ world.history_lineage_counts[l][world.ticks] = 0
       /\ world.history_lineage_counts[m][world.ticks] > 0

(* -------------------------------- C10 ---------------------------------- *)

\* The draws of the step of the replicator that is pick-th to step, whatever
\* the step consumes of them.
AnyDraws(w, pick) ==
  LET a == w.agents_to_step[pick + 1]
      n == Len(get_neighborhood(w.cfg, w.pos[a], TRUE))
  IN  { Draw(pick, m, j, u, r, 0, NoNoise) :
          m \in 0 .. (n - 1), j \in JitterDraws, u \in DeathDraws,
          r \in UniformDraws }

\* The energy after metabolism of replicator a in the step from w to after:
\* what a holds after the step, and what its child holds if it got one.
AfterMetabolism(w, after, a) ==
  IF after.next_id > w.next_id
  THEN after.energy[a] + after.energy[w.next_id]
  ELSE after.energy[a]

\* The draw r, in thousandths, is below rate * min(1, (energy - 1.5) / 2),
\* with a factor of 1 from an energy of 3.5 on.
BelowProbability(r, rate, energy) ==
  IF energy >= 3500 * Scale
  THEN r < rate
  ELSE r * 2000 * Scale < rate * (energy - 1500 * Scale)

GateHolds(w, d) ==
  LET a     == w.agents_to_step[d.pick + 1]
      after == AgentTurn(w, d)
      e     == AfterMetabolism(w, after, a)
      born  == after.next_id > w.next_id
  IN  /\ e <= 1500 * Scale => ~born
      /\ a \in after.to_remove => ~born
      /\ (e > 1500 * Scale /\ a \notin after.to_remove) =>
           (born <=> BelowProbability(d.rep, phenotype(w.genome[a]).replication_rate, e))

\* C10: whichever replicator steps next and whatever it draws, it does not
\* replicate when its energy after metabolism is at most 1.5, and when it
\* is above 1.5 and the replicator survives it replicates exactly when the
\* replication draw is below replication_rate * min(1, (energy - 1.5) / 2).
ReplicationGate ==
  world.pc = "agents" =>
    \A pick \in 0 .. (Len(world.agents_to_step) - 1) :
      (IsReplicator(world, world.agents_to_step[pick + 1])
         /\ world.energy[world.agents_to_step[pick + 1]] > 0) =>
        \A d \in AnyDraws(world, pick) : GateHolds(world, d)

\* A replicator about to step reaches exactly 1.5 after metabolism, survives
\* and does not replicate on the lowest replication draw.
AtThresholdNoReplication ==
  /\ world.pc = "agents"
  /\ \E pick \in 0 .. (Len(world.agents_to_step) - 1) :
       /\ IsReplicator(world, world.agents_to_step[pick + 1])
       /\ world.energy[world.agents_to_step[pick + 1]] > 0
       /\ \E d \in AnyDraws(world, pick) :
            LET a     == world.agents_to_step[pick + 1]
                after == AgentTurn(world, d)
            IN  /\ d.rep = 0
                /\ a \notin after.to_remove
                /\ after.energy[a] = 1500 * Scale
                /\ after.next_id = world.next_id

\* A replicator about to step reaches 3.5 or more after metabolism and
\* replicates.
AtFullRateReplication ==
  /\ world.pc = "agents"
  /\ \E pick \in 0 .. (Len(world.agents_to_step) - 1) :
       /\ IsReplicator(world, world.agents_to_step[pick + 1])
       /\ world.energy[world.agents_to_step[pick + 1]] > 0
       /\ \E d \in AnyDraws(world, pick) :
            LET a     == world.agents_to_step[pick + 1]
                after == AgentTurn(world, d)
            IN  /\ after.next_id > world.next_id
                /\ AfterMetabolism(world, after, a) >= 3500 * Scale

(* -------------------------------- C11 ---------------------------------- *)

\* The arguments the configuration guard is to refuse.
InvalidConfig(cfg) ==
  \/ cfg.width <= 0
  \/ cfg.height <= 0
  \/ cfg.patch_cap < 0
  \/ cfg.patch_regrowth < 0
  \/ cfg.founders = 0

\* C11: a world whose arguments are invalid (a non-positive dimension, a
\* negative capacity or regrowth rate, no founders) has no simulation state:
\* no entity in the population or on the grid, no founder registered, no
\* tick run.
ConfigurationGuarded ==
  InvalidConfig(world.cfg) =>
    /\ world.agents = << >>
    /\ DOMAIN world.pos = {}
    /\ DOMAIN world.lineage_founder_genes = {}
    /\ world.ticks = 0

(* -------------------------------- C12 ---------------------------------- *)

\* The entities still to step are in the population, each listed once.
OrderWellFormed ==
  /\ Range(world.agents_to_step) \subseteq Range(world.agents)
  /\ Cardinality(Range(world.agents_to_step)) = Len(world.agents_to_step)

OneTurnEach ==
  /\ world.pc = "remove" =>
       /\ world'.agents_to_step = world'.agents
       /\ Cardinality(Range(world'.agents)) = Len(world'.agents)
  /\ (world.pc = "agents" /\ world'.pc = "agents") =>
       \E a \in Range(world.agents_to_step) :
         /\ world'.agents_to_step = Without(world.agents_to_step, a)
         /\ Len(world'.agents_to_step) = Len(world.agents_to_step) - 1
         /\ world'.to_remove \ world.to_remove \subseteq {a}
         /\ \A b \in DOMAIN world.energy :
              (world'.energy[b] # world.energy[b] \/ world'.pos[b] # world.pos[b])
                => b = a
         /\ \A p \in DOMAIN world.amount :
              world'.amount[p] # world.amount[p] => (p = a \/ IsReplicator(world, a))
         /\ (IsReplicator(world, a) /\ world.energy[a] > 0) =>
              world'.energy[a] # world.energy[a]
         /\ Range(world'.agents) \ Range(world.agents) \subseteq {world.next_id}
         /\ world.next_id \notin Range(world'.agents_to_step)
  /\ (world.pc = "agents" /\ world'.pc = "run") => world.agents_to_step = << >>
  /\ world.pc = "run" => world'.agents_to_step = world.agents_to_step

\* C12: the order of a tick is the population as the removal phase leaves
\* it, each entity once; every turn is the step of one entity of that order,
\* which leaves it; the tick ends only when the order is used up; a
\* replicator born in the tick is in the population but not in the order.
OneActionPerTick == [](OrderWellFormed) /\ [][OneTurnEach]_vars

\* Every entity has stepped in the first tick, and the population holds a
\* replicator born in it.
BornAfterTheSnapshot ==
  /\ world.pc = "agents"
  /\ world.agents_to_step = << >>
  /\ world.ticks = 0
  /\ Cardinality(Replicators(world)) > world.cfg.founders

(* -------------------------------- C13 ---------------------------------- *)

\* Raw alleles, in tenths: -1e6 and 1e6, the two sides of the overflow of
\* exp, the ends of the table and 0.
ExtremeAlleles ==
  { -10000000, -(ExpRange + 1), -ExpRange, -AlleleSpan, 0, AlleleSpan, 10000000 }

\* Genome.phenotype() called on a genome whose raw alleles are raw: it
\* raises when one of the four logistic_bounded calls does.
phenotype_call(raw) ==
  IF \E n \in Genes : logistic_raises(raw[n])
  THEN [raised |-> TRUE, traits |-> << >>]
  ELSE [raised |-> FALSE, traits |-> phenotype(raw)]

\* A genome with any raw alleles, before phenotype() is called on it.
InitPhenotype ==
  /\ \E raw \in [Genes -> ExtremeAlleles] :
       world = [pc |-> "genome", raw |-> raw, outcome |-> << >>]
  /\ twin = << >>

PhenotypeCall ==
  /\ world.pc = "genome"
  /\ world' = [world EXCEPT !.pc = "phenotype", !.outcome = phenotype_call(world.raw)]
  /\ UNCHANGED twin

NextPhenotype == PhenotypeCall

SpecPhenotype == InitPhenotype /\ [][NextPhenotype]_vars

\* The trait of each gene and its declared range.
TraitOf ==
  [ rep_gene |-> "replication_rate", death_gene |-> "death_rate",
    mut_gene |-> "mutation_rate", met_gene |-> "metabolism" ]

TraitsWithinRanges(traits) ==
  \A n \in Genes :
    /\ GENE_SPEC[n].lo <= traits[TraitOf[n]]
    /\ traits[TraitOf[n]] <= GENE_SPEC[n].hi

\* C13: phenotype() does not raise, whatever the raw alleles, and returns
\* every trait within its declared range.
PhenotypeWithinRanges ==
  world.pc = "phenotype" =>
    /\ ~world.outcome.raised
    /\ TraitsWithinRanges(world.outcome.traits)

\* The same when phenotype() returns.
PhenotypeWithinRangesIfReturned ==
  (world.pc = "phenotype" /\ ~world.outcome.raised) =>
    TraitsWithinRanges(world.outcome.traits)

(* -------------------------------- C14 ---------------------------------- *)

\* What a patch holds is what it held at the start of the tick, plus its
\* regrowth, minus everything taken from it since; so what was taken never
\* exceeds what it held plus its regrowth.
LedgerBalanced ==
  \A p \in DOMAIN world.amount :
    /\ twin.taken[p] >= 0
    /\ twin.taken[p] <= (twin.held[p] + twin.regrown[p]) * Scale
    /\ world.pc = "agents" =>
         world.amount[p] * Scale
           = (twin.held[p] + twin.regrown[p]) * Scale - twin.taken[p]

\* A harvest receives no more than the patch holds when it is made.
HarvestWithinRemainder ==
  \A p \in DOMAIN world.amount :
    LET got == twin'.taken[p] - twin.taken[p]
    IN  (world.pc = "agents" /\ world'.pc = "agents") =>
          /\ 0 <= got
          /\ got <= world.amount[p] * Scale
          /\ got = (world.amount[p] - world'.amount[p]) * Scale
               + (twin'.regrown[p] - twin.regrown[p]) * Scale

\* C14: every harvest of a tick is made on what the earlier harvests and the
\* patch's regrowth of that tick have left, receives at most that, and the
\* harvests of a tick from one patch add up to at most what the patch held
\* plus its regrowth in the tick.
SharedPatchVisible == [](LedgerBalanced) /\ [][HarvestWithinRemainder]_vars

\* Two replicators have harvested the same patch in a tick and have emptied
\* it: together they received all it held and regrew.
PatchSharedOut ==
  \E p \in DOMAIN world.amount :
    /\ world.pc = "agents"
    /\ twin.harvests[p] >= 2
    /\ world.amount[p] = 0
    /\ twin.taken[p] = (twin.held[p] + twin.regrown[p]) * Scale
    /\ twin.taken[p] > 0

(* -------------------------------- C15 ---------------------------------- *)

\* The cells at a distance of at most 1 from pos on the torus, pos included.
Around(cfg, pos) ==
  { << (pos[1] + dx) % cfg.width, (pos[2] + dy) % cfg.height >> :
      dx \in -1 .. 1, dy \in -1 .. 1 }

HarvestTransfers ==
  (TurnTaken /\ IsReplicator(world, Stepped) /\ world.energy[Stepped] > 0) =>
    LET a      == Stepped
        there  == world'.pos[a]
        patch  == CHOOSE p \in DOMAIN world.amount : world.pos[p] = there
        intake == world.amount[patch] - world'.amount[patch]
        t      == phenotype(world.genome[a])
    IN  /\ there \in Around(world.cfg, world.pos[a])
        /\ intake >= 0
        /\ \E j \in JitterDraws :
             intake = Min(world.amount[patch], IntakeWanted(t.metabolism, j))
        /\ AfterMetabolism(world, world', a)
             = world.energy[a] + intake * Scale - t.metabolism * Scale
        /\ \A p \in DOMAIN world.amount \ {patch} :
             world'.amount[p] = world.amount[p]
        /\ \A b \in DOMAIN world.energy \ {a} :
             world'.energy[b] = world.energy[b] /\ world'.pos[b] = world.pos[b]

\* C15: a replicator that steps moves within its neighbourhood and harvests
\* the patch of the cell it is on after the move: the intake is
\* min(patch.amount, base_intake * jitter) and not negative, the patch loses
\* it and the replicator's energy before metabolism gains it, and no other
\* patch and no other replicator changes.
HarvestFromDestination == [][HarvestTransfers]_vars

\* A replicator about to step can move to another cell and harvest there,
\* leaving the food of the cell it leaves untouched.
HarvestAfterMove ==
  /\ world.pc = "agents"
  /\ \E pick \in 0 .. (Len(world.agents_to_step) - 1) :
       /\ IsReplicator(world, world.agents_to_step[pick + 1])
       /\ world.energy[world.agents_to_step[pick + 1]] > 0
       /\ \E d \in AnyDraws(world, pick) :
            LET a     == world.agents_to_step[pick + 1]
                after == AgentTurn(world, d)
            IN  /\ after.pos[a] # world.pos[a]
                /\ \E p, q \in DOMAIN world.amount :
                     /\ world.pos[p] = after.pos[a]
                     /\ after.amount[p] < world.amount[p]
                     /\ world.pos[q] = world.pos[a]
                     /\ world.amount[q] > 0
                     /\ after.amount[q] = world.amount[q]

(* -------------------------------- C16 ---------------------------------- *)

\* The draws of a step whose replication draw is the lowest or the highest.
DrawsAtTheEnds(w, pick) == {d \in AnyDraws(w, pick) : d.rep \in {0, 999}}

DeathDecides(w, d) ==
  LET a       == w.agents_to_step[d.pick + 1]
      after   == AgentTurn(w, d)
      flagged == a \in after.to_remove
      e       == AfterMetabolism(w, after, a)
  IN  /\ flagged <=>
           (d.death < phenotype(w.genome[a]).death_rate \/ e <= 0)
      /\ flagged =>
           /\ after.next_id = w.next_id
           /\ after.agents = w.agents
           /\ after.lineage_births = w.lineage_births
           /\ after.energy[a] = e

\* C16: whichever replicator steps next and whatever it draws, it is flagged
\* exactly when its death draw is below its death_rate or its energy after
\* metabolism is at most 0, and always when it starts at an energy of at
\* most 0; flagged, it has no child and no birth is counted; and no flagged
\* replicator is among the entities still to step.
DeathBeforeReplication ==
  /\ world.to_remove \cap Range(world.agents_to_step) = {}
  /\ world.pc = "agents" =>
       \A pick \in 0 .. (Len(world.agents_to_step) - 1) :
         LET a == world.agents_to_step[pick + 1]
         IN  IsReplicator(world, a) =>
               IF world.energy[a] <= 0
               THEN a \in AgentTurn(world, PatchDraws(pick)).to_remove
               ELSE \A d \in DrawsAtTheEnds(world, pick) : DeathDecides(world, d)

\* A replicator about to step draws above its death_rate, runs out of energy
\* and is flagged.
FlaggedOnExhaustion ==
  /\ world.pc = "agents"
  /\ \E pick \in 0 .. (Len(world.agents_to_step) - 1) :
       /\ IsReplicator(world, world.agents_to_step[pick + 1])
       /\ world.energy[world.agents_to_step[pick + 1]] > 0
       /\ \E d \in AnyDraws(world, pick) :
            LET a     == world.agents_to_step[pick + 1]
                after == AgentTurn(world, d)
            IN  /\ d.death >= phenotype(world.genome[a]).death_rate
                /\ a \in after.to_remove
                /\ after.energy[a] <= 0

\* A replicator about to step draws below its death_rate with energy to
\* spare and a replication draw of 0, and is flagged without a child.
FlaggedWithEnergyToSpare ==
  /\ world.pc = "agents"
  /\ \E pick \in 0 .. (Len(world.agents_to_step) - 1) :
       /\ IsReplicator(world, world.agents_to_step[pick + 1])
       /\ world.energy[world.agents_to_step[pick + 1]] > 0
       /\ \E d \in AnyDraws(world, pick) :
            LET a     == world.agents_to_step[pick + 1]
                after == AgentTurn(world, d)
            IN  /\ d.death < phenotype(world.genome[a]).death_rate
                /\ d.rep = 0
                /\ a \in after.to_remove
                /\ after.energy[a] > ReplicationThreshold * Scale
                /\ after.next_id = world.next_id

(* -------------------------------- C17 ---------------------------------- *)

GateOnlyFlags ==
  (TurnTaken /\ IsReplicator(world, Stepped) /\ world.energy[Stepped] <= 0) =>
    world' = [world EXCEPT !.to_remove = @ \cup {Stepped},
                           !.agents_to_step = Without(@, Stepped)]

\* C17: the step of a replicator that starts with an energy of at most 0
\* adds it to the removal set and takes it off the tick's order, and changes
\* nothing else: no position, no energy, no patch amount, no birth counter,
\* no member of the population.
EnergyGateFrame == [][GateOnlyFlags]_vars

\* A replicator created with an energy of 0 has stepped in the first tick:
\* it is flagged, still at 0, beside a patch that nothing has touched.
FlaggedAtTheGate ==
  /\ world.pc = "agents"
  /\ world.ticks = 0
  /\ \E a \in world.to_remove :
       /\ world.energy[a] = 0
       /\ \E p \in DOMAIN world.amount :
            /\ world.pos[p] = world.pos[a]
            /\ world.amount[p] = PatchInit(world.cfg.patch_cap, world.cfg.init_patch)
            /\ p \in Range(world.agents_to_step)

(* -------------------------------- C18 ---------------------------------- *)

\* The replicators of lineage l that have left the population of world w, as
\* the books have it: the founder and the births, less those present.
Departed(w, l) == 1 + BirthsOf(w, l) - Cardinality(OfLineage(w, l))

BooksStart ==
  /\ \A l \in Founded(world) : Departed(world, l) >= 0
  /\ (world.ticks = 0 /\ world.pc = "run") =>
       \A l \in Founded(world) :
         Departed(world, l) = 0 /\ BirthsOf(world, l) = 0

BooksKept ==
  /\ Replicated =>
       /\ Range(world'.agents) = Range(world.agents) \cup {world.next_id}
       /\ world.next_id \notin Range(world.agents)
       /\ world.next_id \in DOMAIN world'.pos
       /\ \A l \in Founded(world) :
            BirthsOf(world', l)
              = BirthsOf(world, l) + (IF l = world.lineage_id[Stepped] THEN 1 ELSE 0)
  /\ ~Replicated => \A l \in Founded(world) : BirthsOf(world', l) = BirthsOf(world, l)
  /\ \A l \in Founded(world) :
       Departed(world', l)
         = Departed(world, l)
             + (IF world.pc = "remove"
                THEN Cardinality({a \in world.to_remove : world.lineage_id[a] = l})
                ELSE 0)

\* C18: a replication adds one replicator to the population and the grid and
\* 1 to the birth counter of the parent's lineage, and to no other; no other
\* step changes a birth counter; so for every founder lineage the founder
\* and the births, less the replicators in the population, start at 0 and
\* grow by exactly the replicators each removal phase takes out.
BirthAccounting == [](BooksStart) /\ [][BooksKept]_vars

\* At a tick boundary a lineage has births on record, members that have been
\* removed and members in the population.
BornRemovedAndAlive ==
  /\ world.pc = "run"
  /\ \E l \in Founded(world) :
       /\ BirthsOf(world, l) >= 1
       /\ Departed(world, l) >= 1
       /\ OfLineage(world, l) # {}

(* -------------------------------- C19 ---------------------------------- *)

ChildBesideParent ==
  (Replicated /\ world.cfg.width >= 3 /\ world.cfg.height >= 3) =>
    LET parent == Stepped
        child  == world.next_id
        here   == world'.pos[parent]
        beside == Around(world.cfg, here) \ {here}
    IN  /\ child \in Range(world'.agents)
        /\ world'.pos[child] \in beside
        /\ world'.pos[child] # here
        /\ Cardinality(beside) = 8

PatchesInPlace ==
  /\ \A cell \in Cells(world.cfg) :
       Cardinality({p \in Range(world.agents) :
                      IsPatch(world, p) /\ world.pos[p] = cell}) = 1
  /\ \A p \in DOMAIN world.amount :
       /\ p \in Range(world.agents)
       /\ p \in DOMAIN world.pos
       /\ p \notin world.to_remove
       /\ p \notin DOMAIN world.energy

PatchesKept ==
  /\ DOMAIN world'.amount = DOMAIN world.amount
  /\ \A p \in DOMAIN world.amount : world'.pos[p] = world.pos[p]
  /\ world'.cap = world.cap
  /\ world'.regrowth = world.regrowth

\* C20: every cell holds exactly one patch, which is in the population and
\* never in the removal set; no step adds or removes a patch, moves one or
\* changes a cap or a regrowth rate.
PatchPermanence == [](PatchesInPlace) /\ [][PatchesKept]_vars

\* A removal phase has emptied the population of replicators, on a cell that
\* a patch still holds.
PatchesOutliveReplicators ==
  /\ world.pc = "agents"
  /\ world.ticks >= 1
  /\ Replicators(world) = {}
  /\ Len(world.agents) = world.cfg.width * world.cfg.height

(* -------------------------------- C21 ---------------------------------- *)

LivingHaveEnergy ==
  /\ \A a \in Replicators(world) \ world.to_remove : world.energy[a] > 0
  /\ \A a \in Range(world.agents_to_step) :
       IsReplicator(world, a) => world.energy[a] > 0

SplitLeavesEnergy ==
  /\ (TurnTaken /\ IsReplicator(world, Stepped)) => world.energy[Stepped] > 0
  /\ Replicated =>
       /\ world'.energy[world.next_id] > 750 * Scale
       /\ world'.energy[Stepped] > 750 * Scale

\* C21: every replicator of the population that is not in the removal set
\* has an energy above 0, and so has every replicator that is still to step
\* or is stepping: the energy gate is never taken; a child and its parent
\* each leave a replication with more than 0.75.
LivingEnergyPositive == [](LivingHaveEnergy) /\ [][SplitLeavesEnergy]_vars

\* The population holds a flagged replicator whose energy is at most 0 while
\* an unflagged one, with energy left, is still to step.
ExhaustedBesideLiving ==
  /\ world.pc = "agents"
  /\ \E a \in world.to_remove : world.energy[a] <= 0
  /\ \E b \in Range(world.agents_to_step) :
       IsReplicator(world, b) /\ b \notin world.to_remove

(* -------------------------------- C22 ---------------------------------- *)

\* The replicator count the data collector recorded before tick i.
CountBefore(w, i) == IF i = 1 THEN w.cfg.founders ELSE w.model_vars[i - 1].N

OvershootBounded ==
  /\ world.cfg.founders <= world.cfg.max_agents =>
       Cardinality(Replicators(world)) <= 2 * world.cfg.max_agents
  /\ \A i \in 1 .. Len(world.model_vars) :
       world.model_vars[i].N <= 2 * CountBefore(world, i)

OneChildPerTurn ==
  /\ (world.pc = "run" /\ world'.pc = "remove") =>
       Cardinality(Replicators(world)) <= world.cfg.max_agents
  /\ TurnTaken =>
       /\ Range(world'.agents_to_step) = Range(world.agents_to_step) \ {Stepped}
       /\ Replicators(world') \ Replicators(world) \subseteq {world.next_id}
       /\ world'.next_id <= world.next_id + 1
       /\ world.next_id \notin Range(world'.agents_to_step)
  /\ ~TurnTaken => Replicators(world') \subseteq Replicators(world)

\* C22: a replicator's step adds at most one replicator, which does not step
\* in the tick of its birth, so a tick at most doubles the replicator count;
\* a tick starts only with a count of at most max_agents; hence, when
\* founders <= max_agents, the count never exceeds 2 * max_agents.
BoundedOvershoot == [](OvershootBounded) /\ [][OneChildPerTurn]_vars

\* run() has stopped by the ceiling check in a world of at least two founders
\* that started within the ceiling: every replicator of the last tick's
\* start has replicated and the count is twice the ceiling.
CeilingDoubled ==
  /\ world.pc = "done"
  /\ world.stop = "ceiling"
  /\ world.cfg.founders >= 2
  /\ world.cfg.founders <= world.cfg.max_agents
  /\ Cardinality(Replicators(world)) = 2 * world.cfg.max_agents

(* -------------------------------- C23 ---------------------------------- *)

\* grid.remove_agent(a) and deregister_agent(a) succeed in world w: a stands
\* on a cell and is listed in the population exactly once.
Removable(w, a) ==
  /\ a \in DOMAIN w.pos
  /\ w.pos[a] \in Cells(w.cfg)
  /\ Cardinality({i \in 1 .. Len(w.agents) : w.agents[i] = a}) = 1

RemovalSetSound ==
  /\ \A a \in world.to_remove : IsReplicator(world, a) /\ Removable(world, a)
  /\ world.to_remove \cap DOMAIN world.amount = {}

FlagsOnlyItself ==
  /\ TurnTaken => world'.to_remove \ world.to_remove \subseteq {Stepped}
  /\ (TurnTaken /\ IsPatch(world, Stepped)) => world'.to_remove = world.to_remove
  /\ (~TurnTaken /\ world.pc # "remove") => world'.to_remove = world.to_remove
  /\ world.pc = "remove" =>
       /\ Len(world'.agents) = Len(world.agents) - Cardinality(world.to_remove)
       /\ Cardinality(DOMAIN world'.pos) =
            Cardinality(DOMAIN world.pos) - Cardinality(world.to_remove)
       /\ \A a \in world.to_remove :
            a \notin Range(world'.agents) /\ a \notin DOMAIN world'.pos
       /\ \A a \in Range(world'.agents) : Removable(world', a)

\* C23: the removal set holds only replicators that stand on the grid and
\* are listed once in the population; a step adds to it at most the
\* replicator that steps; the removal phase takes each flagged replicator out
\* of grid and population once, every removal finding what it removes.
RemovalSetSoundness == [](RemovalSetSound) /\ [][FlagsOnlyItself]_vars

\* A removal phase is about to run on two flagged replicators.
TwoToRemove ==
  /\ world.pc = "remove"
  /\ Cardinality(world.to_remove) >= 2

(* -------------------------------- C24 ---------------------------------- *)

\* run() has stopped by the extinction check after at least one tick.
StoppedExtinct ==
  /\ world.pc = "done"
  /\ world.stop = "extinct"
  /\ world.ticks >= 1

ExtinctEndState ==
  StoppedExtinct =>
    /\ world.to_remove = {}
    /\ Replicators(world) = {}
    /\ DOMAIN world.energy = {}
    /\ DOMAIN world.history_lineage_counts = Founded(world)
    /\ \A l \in DOMAIN world.history_lineage_counts :
         LET h == world.history_lineage_counts[l]
         IN  Len(h) = world.ticks /\ h[Len(h)] = 0
    /\ world.ticks >= 2
    /\ world.model_vars[world.ticks].N = 0
    /\ world.model_vars[world.ticks - 1].N >= 1

LastRemovalEmpties ==
  /\ world.pc = "remove" =>
       (Replicators(world') = {} <=> Replicators(world) \subseteq world.to_remove)
  /\ (world.pc = "run" /\ world'.pc = "done" /\ world'.stop = "extinct") =>
       /\ Replicators(world) = {}
       /\ world.to_remove = {}
  /\ (world.pc = "run" /\ Replicators(world) # {}) => world'.stop # "extinct"

\* C24: when run() has stopped by the extinction check after at least one
\* tick, the removal set is empty, the population holds no replicator and
\* every lineage history ends with 0; the tick before the last recorded at
\* least one replicator, so the removal phase of the last tick took the last
\* ones out; run() never stops by that check while a replicator, flagged or
\* not, is in the population.
ExtinctionEndState == [](ExtinctEndState) /\ [][LastRemovalEmpties]_vars

\* run() has stopped by the extinction check, the tick before the last having
\* recorded two replicators that were awaiting removal.
ExtinctAfterRemoval ==
  /\ StoppedExtinct
  /\ world.model_vars[world.ticks - 1].N >= 2

====
